---- MODULE Spec2Model ----
(***************************************************************************)
(* A model of WASEQuery.py, the WASE query tool: one invocation of the     *)
(* script from the parsed command line to the last printed line.           *)
(*                                                                         *)
(* Representation of Python values:                                        *)
(*   - a string the code only passes around is a TLA+ string;              *)
(*   - a --responsecode entry, which the code splits on "-" and hands to   *)
(*     int(), is the sequence of its characters;                           *)
(*   - a --fields entry, which the code splits on ".", and a dictionary    *)
(*     key are the sequence of their dot-separated segments;               *)
(*   - an optional list (argparse's None or a list) is a record            *)
(*     [present, v].                                                       *)
(***************************************************************************)
EXTENDS Integers, Sequences, FiniteSets, TLC

(***************************************************************************)
(* Bounds of the model.                                                    *)
(***************************************************************************)
MaxCodes == 2
MaxDocs == 2
MaxCap == 4

(***************************************************************************)
(* Program constants.                                                      *)
(***************************************************************************)
QUERY_SEARCH == 1
QUERY_VALUES == 2

VARIABLES args, s, querytype, r, out, pc, exitcode, err, calls

vars == <<args, s, querytype, r, out, pc, exitcode, err, calls>>

(***************************************************************************)
(* Small helpers of the model itself.                                      *)
(***************************************************************************)
None == [present |-> FALSE, v |-> <<>>]

Some(l) == [present |-> TRUE, v |-> l]

\* Python truthiness of an optional list: None and [] are false.
Truthy(o) == o.present /\ Len(o.v) > 0

SeqsUpTo(S, n) == UNION {[1..k -> S] : k \in 0..n}

InjSeqsUpTo(S, n) == {q \in SeqsUpTo(S, n) : \A i, j \in 1..Len(q) : i # j => q[i] # q[j]}

(***************************************************************************)
(* str.split(sep): the parts between the occurrences of sep.               *)
(***************************************************************************)
RECURSIVE SplitFrom(_, _, _, _)
SplitFrom(str, sep, i, cur) ==
    IF i > Len(str) THEN <<cur>>
    ELSE IF str[i] = sep THEN <<cur>> \o SplitFrom(str, sep, i + 1, <<>>)
    ELSE SplitFrom(str, sep, i + 1, Append(cur, str[i]))

Split(str, sep) == SplitFrom(str, sep, 1, <<>>)

(***************************************************************************)
(* int(str): surrounding whitespace is stripped, one sign is allowed, the  *)
(* rest is a non-empty run of decimal digits in which single underscores   *)
(* may separate digits.  Anything else raises ValueError.                  *)
(***************************************************************************)
DigitChars == <<"0", "1", "2", "3", "4", "5", "6", "7", "8", "9">>

IsDigit(c) == \E n \in 1..10 : DigitChars[n] = c

DigitVal(c) == (CHOOSE n \in 1..10 : DigitChars[n] = c) - 1

IsSpace(c) == c \in {" ", "\t", "\n"}

RECURSIVE LStrip(_)
LStrip(str) == IF str # <<>> /\ IsSpace(Head(str)) THEN LStrip(Tail(str)) ELSE str

RECURSIVE RStrip(_)
RStrip(str) ==
    IF str # <<>> /\ IsSpace(str[Len(str)]) THEN RStrip(SubSeq(str, 1, Len(str) - 1)) ELSE str

Strip(str) == RStrip(LStrip(str))

HasSign(str) == str # <<>> /\ Head(str) \in {"+", "-"}

Unsigned(str) == IF HasSign(str) THEN Tail(str) ELSE str

DigitsOk(b) ==
    /\ b # <<>>
    /\ IsDigit(b[1])
    /\ IsDigit(b[Len(b)])
    /\ \A i \in 1..Len(b) : IsDigit(b[i]) \/ b[i] = "_"
    /\ \A i \in 1..(Len(b) - 1) : ~(b[i] = "_" /\ b[i + 1] = "_")

RECURSIVE DigitsVal(_, _)
DigitsVal(b, acc) ==
    IF b = <<>> THEN acc
    ELSE IF Head(b) = "_" THEN DigitsVal(Tail(b), acc)
    ELSE DigitsVal(Tail(b), 10 * acc + DigitVal(Head(b)))

PyIntOk(str) == DigitsOk(Unsigned(Strip(str)))

PyInt(str) ==
    LET t == Strip(str)
        m == DigitsVal(Unsigned(t), 0)
    IN IF HasSign(t) /\ Head(t) = "-" THEN 0 - m ELSE m

(***************************************************************************)
(* Query objects of elasticsearch_dsl, as far as the script builds them.   *)
(***************************************************************************)
\* Q("match", field=value)
Match(field, value) == [t |-> "match", field |-> field, value |-> value]

\* ~q
Negate(q) == [t |-> "not", q |-> q]

\* Q("query_string", query=q)
QueryString(q) == [t |-> "query_string", query |-> q]

\* The query of a fresh Search object.
MatchAll == [t |-> "match_all"]

\* One named aggregation of a chain built with .bucket(name, type, ...).
Agg(name, type, arg) == [name |-> name, type |-> type, arg |-> arg]

\* Search(using=es).index(args.index): no query, no filter, no aggregation.
\* aggs is the set of aggregation chains hanging off the top level, each
\* chain the sequence of its nested buckets from the outermost inwards.
NewSearch == [query |-> MatchAll, filters |-> <<>>, aggs |-> {}]

\* A variant of AddFilter that puts the new filter in front.
AddFilterFront(srch, f) == [srch EXCEPT !.filters = <<f>> \o @]

\* s.filter(...): a copy of s with one more filter; filters are AND'ed.
AddFilter(srch, f) == [srch EXCEPT !.filters = Append(@, f)]

\* A variant of RCFilter that takes any entry of two or more parts for a range.
RCFilterAtLeastTwo(rc) ==
    LET rcrange == Split(rc, "-")
    IN IF Len(rcrange) >= 2
       THEN IF PyIntOk(rcrange[1]) /\ PyIntOk(rcrange[2])
            THEN [err |-> "",
                  f |-> [t |-> "range", field |-> "response.status",
                         gte |-> PyInt(rcrange[1]), lte |-> PyInt(rcrange[2])]]
            ELSE [err |-> "ValueError", f |-> [t |-> "none"]]
       ELSE [err |-> "", f |-> [t |-> "term", field |-> "response.status", value |-> rc]]

RCFilter(rc) ==
    LET rcrange == Split(rc, "-")
    IN IF Len(rcrange) = 2
       THEN IF PyIntOk(rcrange[1]) /\ PyIntOk(rcrange[2])
            THEN [err |-> "",
                  f |-> [t |-> "range", field |-> "response.status",
                         gte |-> PyInt(rcrange[1]), lte |-> PyInt(rcrange[2])]]
            ELSE [err |-> "ValueError", f |-> [t |-> "none"]]
       ELSE [err |-> "", f |-> [t |-> "term", field |-> "response.status", value |-> rc]]

\* A variant of AddRCFilters that passes over the entries int() rejects.
RECURSIVE AddRCFiltersSkipping(_, _)
AddRCFiltersSkipping(srch, rcs) ==
    IF rcs = <<>> THEN [err |-> "", s |-> srch]
    ELSE LET x == RCFilter(Head(rcs))
         IN IF x.err # "" THEN AddRCFiltersSkipping(srch, Tail(rcs))
            ELSE AddRCFiltersSkipping(AddFilter(srch, x.f), Tail(rcs))

\* The loop over responsecodes; the first entry int() rejects ends it.
RECURSIVE AddRCFilters(_, _)
AddRCFilters(srch, rcs) ==
    IF rcs = <<>> THEN [err |-> "", s |-> srch]
    ELSE LET x == RCFilter(Head(rcs))
         IN IF x.err # "" THEN [err |-> x.err, s |-> srch]
            ELSE AddRCFilters(AddFilter(srch, x.f), Tail(rcs))

\* A variant of MainQuery that tests invert the wrong way round.
MainQuerySwapped(field, name, invert) ==
    IF invert THEN Negate(Match(field, name)) ELSE Match(field, name)

MainQuery(field, name, invert) ==
    IF ~invert THEN Negate(Match(field, name)) ELSE Match(field, name)

MethodFilter(srch, methods) ==
    IF Truthy(methods)
    THEN AddFilter(srch, [t |-> "terms", field |-> "request.method", values |-> methods.v])
    ELSE srch

query_missing(srch, field, name, methods, responsecodes, invert) ==
    LET s1 == [srch EXCEPT !.query = MainQuery(field, name, invert)]
        s2 == MethodFilter(s1, methods)
        x == IF Truthy(responsecodes) THEN AddRCFilters(s2, responsecodes.v)
             ELSE [err |-> "", s |-> s2]
    IN \* s.query = q changes the caller's object in place; the filtered copies
       \* are lost when int() raises.
       IF x.err # "" THEN [err |-> x.err, s |-> s1] ELSE x

query_missingheader(srch, headername, methods, responsecodes, invert) ==
    query_missing(srch, "response.headernames", headername, methods, responsecodes, invert)

query_missingparam(srch, paramname, methods, responsecodes, invert) ==
    query_missing(srch, "request.parameternames", paramname, methods, responsecodes, invert)

\* A variant of HeaderValsChain whose terms bucket is named "value".
HeaderValsChainRenamed(headername) ==
    << Agg("response_headers", "nested", [path |-> "response.headers"]),
       Agg("header", "filter", Match("response.headers.name", headername)),
       Agg("value", "terms", [field |-> "response.headers.value.raw", size |-> 0]),
       Agg("main", "reverse_nested", [none |-> TRUE]),
       Agg("urls", "terms", [field |-> "request.url.raw", size |-> 0]) >>

HeaderValsChain(headername) ==
    << Agg("response_headers", "nested", [path |-> "response.headers"]),
       Agg("header", "filter", Match("response.headers.name", headername)),
       Agg("values", "terms", [field |-> "response.headers.value.raw", size |-> 0]),
       Agg("main", "reverse_nested", [none |-> TRUE]),
       Agg("urls", "terms", [field |-> "request.url.raw", size |-> 0]) >>

query_headervals(srch, headername) ==
    [srch EXCEPT !.query = Match("response.headernames", headername),
                 !.aggs = @ \cup {HeaderValsChain(headername)}]

\* " ".join(args.query)
RECURSIVE Join(_)
Join(terms) ==
    IF terms = <<>> THEN <<>>
    ELSE IF Len(terms) = 1 THEN terms
    ELSE <<Head(terms), " ">> \o Join(Tail(terms))

query(srch, q) == [srch EXCEPT !.query = QueryString(q)]

DefaultChain == << Agg("urls", "terms", [field |-> "request.url.raw", size |-> 0]) >>

\* A variant of add_default_aggregation that attaches nothing.
add_no_aggregation(srch) == srch

add_default_aggregation(srch) == [srch EXCEPT !.aggs = @ \cup {DefaultChain}]

(***************************************************************************)
(* The engine's answers.                                                   *)
(***************************************************************************)
\* The bucket names under which the answer to srch can be addressed: every
\* prefix of every aggregation chain of the query.
AggNames(srch) ==
    {[i \in 1..k |-> c[i].name] : <<c, k>> \in {ck \in srch.aggs \X (1..5) : ck[2] <= Len(ck[1])}}

NoResult == [kind |-> "none"]

\* s.scan(): a generator over the matching documents.
Generator(docs) == [kind |-> "generator", docs |-> docs]

\* s.execute(): the first hits and the aggregations, named as in the query.
Response(hits, names, buckets) ==
    [kind |-> "response", hits |-> hits, names |-> names, buckets |-> buckets]

\* "not r": a generator object is always true; a Response is true iff it
\* has hits.
RTruthy(res) == IF res.kind = "generator" THEN TRUE ELSE res.hits > 0

HasPath(res, path) == path \in res.names

(***************************************************************************)
(* Documents: dictionaries from keys to strings or to dictionaries.        *)
(***************************************************************************)
Str(v) == [t |-> "str", v |-> v]

Dict(d) == [t |-> "dict", d |-> d]

DocFull ==
    (<<"request">> :> Dict((<<"url">> :> Str("/a")) @@ (<<"method">> :> Str("GET"))))
    @@ (<<"timestamp">> :> Str("t1"))

DocNoMethod == (<<"request">> :> Dict(<<"url">> :> Str("/b")))

DocNoUrl ==
    (<<"request">> :> Dict(<<"method">> :> Str("POST"))) @@ (<<"timestamp">> :> Str("t2"))

Docs == {DocFull, DocNoMethod, DocNoUrl}

\* d[key] on a dictionary value.
GetItem(val, key) ==
    IF val.t # "dict" THEN [err |-> "TypeError", val |-> Str("")]
    ELSE IF key \notin DOMAIN val.d THEN [err |-> "KeyError", val |-> Str("")]
    ELSE [err |-> "", val |-> val.d[key]]

\* d[k1][k2]
GetItem2(val, k1, k2) ==
    LET a == GetItem(val, k1)
    IN IF a.err # "" THEN a ELSE GetItem(a.val, k2)

\* What print() shows of a value.
Shown(val) == IF val.t = "str" THEN val.v ELSE "{...}"

\* f.split(".", 1) on a key given by its segments.
SplitDot1(f) == IF Len(f) <= 1 THEN <<f>> ELSE <<SubSeq(f, 1, 1), Tail(f)>>

(***************************************************************************)
(* Printed lines.                                                          *)
(***************************************************************************)
Line(t, name, v) == [t |-> t, name |-> name, v |-> v]

UrlLine(u) == Line("url", <<>>, u)

ValueLine(v) == Line("value", <<>>, v)

FieldLine(f, v) == Line("field", f, v)

\* print(f, end=": ") with nothing after it.
PartialLine(f) == Line("partial", f, "")

BlankLine == Line("blank", <<>>, "")

NoMatchesLine == Line("text", <<>>, "No matches!")

HelpLine == Line("text", <<>>, "usage")

(***************************************************************************)
(* Raw-field output of search mode.                                        *)
(***************************************************************************)
\* The body of "for f in args.fields" for one field of one document.
FieldOut(d, f) ==
    LET fl == SplitDot1(f)
        x == IF Len(fl) = 2 THEN GetItem2(Dict(d), fl[1], fl[2]) ELSE GetItem(Dict(d), f)
    IN IF x.err = "" THEN [err |-> "", out |-> <<FieldLine(f, Shown(x.val))>>]
       ELSE IF x.err = "KeyError" THEN [err |-> "", out |-> <<FieldLine(f, "-")>>]
       ELSE [err |-> x.err, out |-> <<PartialLine(f)>>]

RECURSIVE FieldsOut(_, _)
FieldsOut(d, fs) ==
    IF fs = <<>> THEN [err |-> "", out |-> <<>>]
    ELSE LET x == FieldOut(d, Head(fs))
         IN IF x.err # "" THEN x
            ELSE LET y == FieldsOut(d, Tail(fs))
                 IN [err |-> y.err, out |-> x.out \o y.out]

\* print(d['request']['url'])
UrlOut(d) ==
    LET x == GetItem2(Dict(d), <<"request">>, <<"url">>)
    IN IF x.err = "" THEN [err |-> "", out |-> <<UrlLine(Shown(x.val))>>]
       ELSE [err |-> x.err, out |-> <<>>]

\* The body of "for d in r" for one document.
DocOut(d, fs) ==
    LET u == UrlOut(d)
    IN IF u.err # "" THEN u
       ELSE LET x == FieldsOut(d, fs)
            IN IF x.err # "" THEN [err |-> x.err, out |-> u.out \o x.out]
               ELSE [err |-> "", out |-> u.out \o x.out \o <<BlankLine>>]

RECURSIVE DocsOut(_, _)
DocsOut(docs, fs) ==
    IF docs = <<>> THEN [err |-> "", out |-> <<>>]
    ELSE LET x == DocOut(Head(docs), fs)
         IN IF x.err # "" THEN x
            ELSE LET y == DocsOut(Tail(docs), fs)
                 IN [err |-> y.err, out |-> x.out \o y.out]

(***************************************************************************)
(* Aggregated output.                                                      *)
(***************************************************************************)
\* for d in r.aggregations.urls.buckets: print(d['key'])
UrlsOut(keys) == [i \in 1..Len(keys) |-> UrlLine(keys[i])]

\* A variant of UrlLoop that tests the counter before it counts the URL.
RECURSIVE UrlLoopLate(_, _, _)
UrlLoopLate(keys, i, urlcnt) ==
    IF i > Len(keys) THEN <<>>
    ELSE IF urlcnt = 0 THEN <<UrlLine(keys[i])>>
    ELSE <<UrlLine(keys[i])>> \o
         UrlLoopLate(keys, i + 1, IF urlcnt >= 0 THEN urlcnt - 1 ELSE urlcnt)

\* The loop "for url in hv.main.urls.buckets" from its i-th bucket on.
RECURSIVE UrlLoop(_, _, _)
UrlLoop(keys, i, urlcnt) ==
    IF i > Len(keys) THEN <<>>
    ELSE LET cnt == IF urlcnt >= 0 THEN urlcnt - 1 ELSE urlcnt
         IN IF cnt = 0 THEN <<UrlLine(keys[i])>>
            ELSE <<UrlLine(keys[i])>> \o UrlLoop(keys, i + 1, cnt)

StartCount(max_urls) == IF max_urls > 0 THEN max_urls ELSE 0 - 1

\* The body of "for hv in ...values.buckets" for one bucket.
ValueOut(hv, urls, max_urls) ==
    <<ValueLine(hv.key)>> \o
    (IF urls THEN UrlLoop(hv.urls, 1, StartCount(max_urls)) \o <<BlankLine>> ELSE <<>>)

RECURSIVE ValuesOut(_, _, _)
ValuesOut(hvs, urls, max_urls) ==
    IF hvs = <<>> THEN <<>>
    ELSE ValueOut(Head(hvs), urls, max_urls) \o ValuesOut(Tail(hvs), urls, max_urls)

(***************************************************************************)
(* The command lines and engine answers the model draws from.              *)
(***************************************************************************)
Names == {"X-Frame-Options", "csrf_token"}

\* "200-299", "404", "2*", "abc-299", "200-", "1-2-3", "-", " 1-+2"
RCEntries ==
    { <<"2", "0", "0", "-", "2", "9", "9">>,
      <<"4", "0", "4">>,
      <<"2", "*">>,
      <<"a", "b", "c", "-", "2", "9", "9">>,
      <<"2", "0", "0", "-">>,
      <<"1", "-", "2", "-", "3">>,
      <<"-">>,
      <<" ", "1", "-", "+", "2">> }

\* The uses of --method: none, or "POST" and "GET".
MethodLists == {None, Some(<<"POST", "GET">>)}

\* The uses of --fields: none, "request.method", "timestamp.x",
\* "request.method.raw" and "timestamp".
FieldLists ==
    { None,
      Some(<< <<"request", "method">> >>),
      Some(<< <<"timestamp", "x">> >>),
      Some(<< <<"request", "method", "raw">>, <<"timestamp">> >>) }

\* The numbers of hits on the first page of an answer.
HitCounts == {0, 1}

QueryTerms == { <<"*">>, <<"foo">>, <<"foo", "bar">> }

UrlKeys == {"/a", "/b", "/c"}

HeaderValues == {"DENY", "SAMEORIGIN"}

\* An action="append" option: None, or the non-empty list of its uses.
Appended(S, n) == {None} \cup {Some(l) : l \in SeqsUpTo(S, n) \ {<<>>}}

BaseArgs ==
    [cmd |-> "", fields |-> None, name |-> "", invert |-> FALSE, method |-> None,
     responsecode |-> None, urls |-> FALSE, max_urls |-> 0, query |-> <<>>]

MissingArgs(cmd) ==
    {[BaseArgs EXCEPT !.cmd = cmd, !.fields = f, !.name = n, !.invert = i,
                      !.method = m, !.responsecode = c] :
        f \in FieldLists, n \in Names, i \in BOOLEAN,
        m \in MethodLists, c \in Appended(RCEntries, MaxCodes)}

HeaderValsArgs ==
    {[BaseArgs EXCEPT !.cmd = "headervalues", !.fields = f, !.name = n,
                      !.urls = u, !.max_urls = x] :
        f \in FieldLists, n \in Names, u \in BOOLEAN,
        x \in (0 - 1)..MaxCap}

SearchArgs ==
    {[BaseArgs EXCEPT !.cmd = "search", !.fields = f, !.query = q] :
        f \in FieldLists, q \in QueryTerms}

HelpArgs ==
    {[BaseArgs EXCEPT !.cmd = "none", !.fields = f] : f \in FieldLists}

ParsedArgs ==
    MissingArgs("missingheader") \cup MissingArgs("missingparameter")
    \cup HeaderValsArgs \cup SearchArgs \cup HelpArgs

UrlBuckets == InjSeqsUpTo(UrlKeys, Cardinality(UrlKeys))

ValueBuckets ==
    {hvs \in SeqsUpTo([key : HeaderValues, urls : UrlBuckets \ {<<>>}], Cardinality(HeaderValues)) :
        \A i, j \in 1..Len(hvs) : i # j => hvs[i].key # hvs[j].key}

(***************************************************************************)
(* The script.                                                             *)
(***************************************************************************)
\* Lines 105-112: the parsed arguments and a fresh Search.
Init ==
    /\ args \in ParsedArgs
    /\ s = NewSearch
    /\ querytype = 0
    /\ r = NoResult
    /\ out = <<>>
    /\ pc = "dispatch"
    /\ exitcode = 0 - 1
    /\ err = ""
    /\ calls = <<>>

\* The process ends: sys.exit(code), an uncaught exception, or the last line.
Exit(code, e) ==
    /\ pc' = "exit"
    /\ exitcode' = code
    /\ err' = e

\* The outcome of a query_missing* call in the dispatch.
Built(x) ==
    /\ s' = x.s
    /\ IF x.err = ""
       THEN /\ querytype' = QUERY_SEARCH
            /\ pc' = "execute"
            /\ UNCHANGED <<exitcode, err>>
       ELSE /\ Exit(1, x.err)
            /\ UNCHANGED querytype
    /\ UNCHANGED <<args, r, out, calls>>

DispatchMissingHeader ==
    /\ pc = "dispatch"
    /\ args.cmd = "missingheader"
    /\ Built(query_missingheader(s, args.name, args.method, args.responsecode, args.invert))

DispatchMissingParameter ==
    /\ pc = "dispatch"
    /\ args.cmd = "missingparameter"
    /\ Built(query_missingparam(s, args.name, args.method, args.responsecode, args.invert))

DispatchHeaderValues ==
    /\ pc = "dispatch"
    /\ args.cmd = "headervalues"
    /\ s' = query_headervals(s, args.name)
    /\ querytype' = QUERY_VALUES
    /\ pc' = "execute"
    /\ UNCHANGED <<args, r, out, exitcode, err, calls>>

DispatchSearch ==
    /\ pc = "dispatch"
    /\ args.cmd = "search"
    /\ s' = query(s, Join(args.query))
    /\ querytype' = QUERY_SEARCH
    /\ pc' = "execute"
    /\ UNCHANGED <<args, r, out, exitcode, err, calls>>

DispatchHelp ==
    /\ pc = "dispatch"
    /\ args.cmd \notin {"missingheader", "missingparameter", "headervalues", "search"}
    /\ out' = Append(out, HelpLine)
    /\ Exit(1, "")
    /\ UNCHANGED <<args, s, querytype, r, calls>>

\* One call of the engine client.
Call(op, srch) == [op |-> op, query |-> srch]

\* A variant of ExecuteScan that falls through into s.execute() as well.
ExecuteScanThenExecute ==
    /\ pc = "execute"
    /\ querytype = QUERY_SEARCH
    /\ Truthy(args.fields)
    /\ \E docs \in SeqsUpTo(Docs, MaxDocs) : r' = Generator(docs)
    /\ calls' = calls \o <<Call("scan", s), Call("execute", s)>>
    /\ pc' = "output"
    /\ UNCHANGED <<args, s, querytype, out, exitcode, err>>

\* Lines 130-132.  The documents are those the generator will yield to the
\* output loop.
ExecuteScan ==
    /\ pc = "execute"
    /\ querytype = QUERY_SEARCH
    /\ Truthy(args.fields)
    /\ \E docs \in SeqsUpTo(Docs, MaxDocs) : r' = Generator(docs)
    /\ calls' = Append(calls, Call("scan", s))
    /\ pc' = "output"
    /\ UNCHANGED <<args, s, querytype, out, exitcode, err>>

\* s.execute() of srch: an answer, or a failure of the transport.
Executed(srch, answers) ==
    /\ calls' = Append(calls, Call("execute", srch))
    /\ \/ /\ r' \in answers
          /\ pc' = "output"
          /\ UNCHANGED <<exitcode, err>>
       \/ /\ r' = NoResult
          /\ Exit(1, "TransportError")

\* Lines 133-136.
ExecuteSearch ==
    /\ pc = "execute"
    /\ querytype = QUERY_SEARCH
    /\ ~Truthy(args.fields)
    /\ s' = add_default_aggregation(s)
    /\ Executed(s', {Response(h, AggNames(s'), b) :
                        <<h, b>> \in {hb \in HitCounts \X UrlBuckets :
                                        hb[1] = 0 => hb[2] = <<>>}})
    /\ UNCHANGED <<args, querytype, out>>

\* Lines 137-139.
ExecuteValues ==
    /\ pc = "execute"
    /\ querytype = QUERY_VALUES
    /\ Executed(s, {Response(h, AggNames(s), b) :
                        <<h, b>> \in {hb \in HitCounts \X ValueBuckets :
                                        hb[1] = 0 => hb[2] = <<>>}})
    /\ UNCHANGED <<args, s, querytype, out>>

\* Lines 141-144.
NoMatches ==
    /\ pc = "output"
    /\ querytype = QUERY_SEARCH
    /\ ~RTruthy(r)
    /\ out' = Append(out, NoMatchesLine)
    /\ Exit(0, "")
    /\ UNCHANGED <<args, s, querytype, r, calls>>

\* The end of an output loop: the lines it printed and how it ended.
Printed(x) ==
    /\ out' = out \o x.out
    /\ Exit(IF x.err = "" THEN 0 ELSE 1, x.err)
    /\ UNCHANGED <<args, s, querytype, r, calls>>

\* Lines 145-158.
OutputFields ==
    /\ pc = "output"
    /\ querytype = QUERY_SEARCH
    /\ RTruthy(r)
    /\ Truthy(args.fields)
    /\ Printed(DocsOut(r.docs, args.fields.v))

\* Lines 159-161.
OutputUrls ==
    /\ pc = "output"
    /\ querytype = QUERY_SEARCH
    /\ RTruthy(r)
    /\ ~Truthy(args.fields)
    /\ Printed(IF HasPath(r, <<"urls">>)
               THEN [err |-> "", out |-> UrlsOut(r.buckets)]
               ELSE [err |-> "AttributeError", out |-> <<>>])

\* Lines 162-176.
OutputValues ==
    /\ pc = "output"
    /\ querytype = QUERY_VALUES
    /\ Printed(IF ~HasPath(r, <<"response_headers", "header", "values">>)
               THEN [err |-> "AttributeError", out |-> <<>>]
               ELSE IF /\ args.urls
                       /\ r.buckets # <<>>
                       /\ ~HasPath(r, <<"response_headers", "header", "values", "main", "urls">>)
               THEN [err |-> "AttributeError", out |-> <<ValueLine(r.buckets[1].key)>>]
               ELSE [err |-> "", out |-> ValuesOut(r.buckets, args.urls, args.max_urls)])

Next ==
    \/ DispatchMissingHeader
    \/ DispatchMissingParameter
    \/ DispatchHeaderValues
    \/ DispatchSearch
    \/ DispatchHelp
    \/ ExecuteScan
    \/ ExecuteSearch
    \/ ExecuteValues
    \/ NoMatches
    \/ OutputFields
    \/ OutputUrls
    \/ OutputValues

Spec == Init /\ [][Next]_vars

(***************************************************************************)
(* Properties.                                                             *)
(***************************************************************************)
IsMissingCmd == args.cmd \in {"missingheader", "missingparameter"}

MissingField == IF args.cmd = "missingheader" THEN "response.headernames"
                ELSE "request.parameternames"

\* The number of method filters of the invocation.
MethodCount == IF args.method.present /\ args.method.v # <<>> THEN 1 ELSE 0

\* The --responsecode entries of the invocation.
Codes == IF args.responsecode.present THEN args.responsecode.v ELSE <<>>

\* The positions of "-" in an entry.
DashesAt(e) == {i \in 1..Len(e) : e[i] = "-"}

TheDash(e) == CHOOSE i \in DashesAt(e) : TRUE

BeforeDash(e) == SubSeq(e, 1, TheDash(e) - 1)

AfterDash(e) == SubSeq(e, TheDash(e) + 1, Len(e))

\* A two-part entry with a bound int() rejects.
BadRange(e) ==
    /\ Cardinality(DashesAt(e)) = 1
    /\ ~(PyIntOk(BeforeDash(e)) /\ PyIntOk(AfterDash(e)))

\* C1: after missingheader or missingparameter has built its query, the main
\* predicate is the match on (field, name), negated exactly when invert is
\* false, the field being response.headernames for missingheader and
\* request.parameternames for missingparameter; the filters are those the
\* other of the two commands builds from the same arguments.
C1_MissingPredicate ==
    (IsMissingCmd /\ pc # "dispatch") =>
        /\ s.query =
             IF args.invert
             THEN [t |-> "match", field |-> MissingField, value |-> args.name]
             ELSE [t |-> "not",
                   q |-> [t |-> "match", field |-> MissingField, value |-> args.name]]
        /\ LET other == IF args.cmd = "missingheader"
                        THEN query_missingparam(NewSearch, args.name, args.method,
                                                args.responsecode, args.invert)
                        ELSE query_missingheader(NewSearch, args.name, args.method,
                                                 args.responsecode, args.invert)
           IN /\ s.filters = other.s.filters
              /\ other.s.query.t = s.query.t
              /\ (querytype = QUERY_SEARCH) = (other.err = "")

C1_Witness ==
    /\ pc = "execute"
    /\ args.cmd = "missingparameter"
    /\ ~args.invert
    /\ s.query.t = "not"
    /\ s.query.q.field = "request.parameternames"

\* C2: when every response-code entry parses, the query built by
\* missingheader/missingparameter has (1 if methods are given, else 0) + |C|
\* filters: the terms filter on request.method first, then one filter per
\* entry of C in input order.
C2_FilterCount ==
    (IsMissingCmd /\ querytype = QUERY_SEARCH) =>
        /\ Len(s.filters) = MethodCount + Len(Codes)
        /\ MethodCount = 1 =>
             s.filters[1] = [t |-> "terms", field |-> "request.method",
                             values |-> args.method.v]
        /\ \A i \in 1..Len(Codes) :
             LET f == s.filters[MethodCount + i]
             IN /\ f.field = "response.status"
                /\ f.t \in {"range", "term"}
                /\ f.t = "term" => f.value = Codes[i]
                /\ f.t = "range" =>
                     /\ Cardinality(DashesAt(Codes[i])) = 1
                     /\ f.gte = PyInt(BeforeDash(Codes[i]))
                     /\ f.lte = PyInt(AfterDash(Codes[i]))

C2_Witness ==
    /\ pc = "execute"
    /\ IsMissingCmd
    /\ MethodCount = 1
    /\ Len(Codes) = 2
    /\ Codes[1] # Codes[2]
    /\ Len(s.filters) = 3
    /\ s.filters[1].t = "terms"
    /\ s.filters[2].t = "term"
    /\ s.filters[3].t = "range"

\* C3: an entry with exactly one "-" whose two parts are integers becomes a
\* range filter on response.status with those bounds; an entry with exactly
\* one "-" and a part that is not an integer makes the run fail with
\* ValueError; any other entry becomes a term filter on response.status
\* holding the entry unchanged.
C3_Classification ==
    (IsMissingCmd /\ pc # "dispatch") =>
        /\ (querytype = QUERY_SEARCH) = (\A i \in 1..Len(Codes) : ~BadRange(Codes[i]))
        /\ querytype # QUERY_SEARCH => (pc = "exit" /\ err = "ValueError")
        /\ querytype = QUERY_SEARCH =>
             \A i \in 1..Len(Codes) :
                LET e == Codes[i]
                    f == s.filters[MethodCount + i]
                IN /\ Cardinality(DashesAt(e)) = 1 =>
                        f = [t |-> "range", field |-> "response.status",
                             gte |-> PyInt(BeforeDash(e)), lte |-> PyInt(AfterDash(e))]
                   /\ Cardinality(DashesAt(e)) # 1 =>
                        f = [t |-> "term", field |-> "response.status", value |-> e]
                   /\ e = <<"2", "0", "0", "-", "2", "9", "9">> =>
                        (f.t = "range" /\ f.gte = 200 /\ f.lte = 299)
                   /\ e \in {<<"4", "0", "4">>, <<"2", "*">>, <<"1", "-", "2", "-", "3">>} =>
                        (f.t = "term" /\ f.value = e)
        /\ (\E i \in 1..Len(Codes) :
               Codes[i] \in {<<"a", "b", "c", "-", "2", "9", "9">>, <<"2", "0", "0", "-">>})
             => err = "ValueError"

C3_Witness ==
    /\ pc = "execute"
    /\ IsMissingCmd
    /\ Len(Codes) = 2
    /\ Codes[1] = <<"1", "-", "2", "-", "3">>
    /\ Codes[2] = <<"2", "0", "0", "-", "2", "9", "9">>
    /\ s.filters[MethodCount + 1].t = "term"
    /\ s.filters[MethodCount + 2].t = "range"

\* The lines of one header-value bucket under a cap of n URLs.
BucketRows(hv, listed, n) ==
    <<ValueLine(hv.key)>> \o
    (IF listed THEN [i \in 1..n |-> UrlLine(hv.urls[i])] \o <<BlankLine>> ELSE <<>>)

Capped(max_urls, k) ==
    IF max_urls > 0 THEN (IF max_urls < k THEN max_urls ELSE k) ELSE k

RECURSIVE AllRows(_, _, _)
AllRows(hvs, listed, max_urls) ==
    IF hvs = <<>> THEN <<>>
    ELSE BucketRows(Head(hvs), listed, Capped(max_urls, Len(Head(hvs).urls)))
         \o AllRows(Tail(hvs), listed, max_urls)

\* C4: in values mode the output is, bucket by bucket in bucket order, the
\* header value once and, when URL listing is requested, the first
\* min(max_urls, k) of the bucket's k URL keys when max_urls > 0 and all k
\* when max_urls is 0; without URL listing no URL key is printed.
C4_Cap ==
    (pc = "exit" /\ querytype = QUERY_VALUES /\ r.kind = "response" /\ args.max_urls >= 0) =>
        /\ err = ""
        /\ out = AllRows(r.buckets, args.urls, args.max_urls)
        /\ ~args.urls => \A i \in 1..Len(out) : out[i].t = "value"

C4_Witness ==
    /\ pc = "exit"
    /\ querytype = QUERY_VALUES
    /\ r.kind = "response"
    /\ args.urls
    /\ args.max_urls = 2
    /\ Len(r.buckets) = 2
    /\ Len(r.buckets[1].urls) = 3
    /\ Len(r.buckets[2].urls) = 1
    /\ Len(out) = 7

\* The engine answered, and no document matches.
ZeroMatches ==
    \/ r.kind = "generator" /\ r.docs = <<>>
    \/ r.kind = "response" /\ r.hits = 0

\* C5: in search mode, when the engine returns zero matching documents, with
\* or without raw fields, the run prints exactly "No matches!" and exits
\* with code 0.
C5_NoMatches ==
    (pc = "exit" /\ querytype = QUERY_SEARCH /\ ZeroMatches) =>
        /\ out = <<NoMatchesLine>>
        /\ exitcode = 0

\* The aggregation attached by default.
UrlsAgg == << [name |-> "urls", type |-> "terms",
               arg |-> [field |-> "request.url.raw", size |-> 0]] >>

\* C6: the query handed to the engine carries the default aggregation (the
\* single terms bucket urls on the request URL, size 0) if and only if the
\* command is missingheader, missingparameter or search and no raw fields
\* were requested; a scanned query carries no aggregation at all.
C6_DefaultAggregation ==
    \A i \in 1..Len(calls) :
        LET c == calls[i]
        IN /\ (UrlsAgg \in c.query.aggs) =
                (/\ args.cmd \in {"missingheader", "missingparameter", "search"}
                 /\ ~(args.fields.present /\ args.fields.v # <<>>))
           /\ UrlsAgg \in c.query.aggs => (c.query.aggs = {UrlsAgg} /\ c.op = "execute")
           /\ c.op = "scan" => c.query.aggs = {}

C6_Witness ==
    /\ pc = "exit"
    /\ args.cmd = "search"
    /\ Len(calls) = 1
    /\ calls[1].op = "execute"
    /\ calls[1].query.aggs = {UrlsAgg}
    /\ \E i \in 1..Len(out) : out[i].t = "url"

\* The names along a chain of aggregations.
ChainNames(c) == [i \in 1..Len(c) |-> c[i].name]

\* C7: headervalues builds the unwrapped match on response.headernames, no
\* filter, and the one aggregation path response_headers (nested) -> header
\* (filter on response.headers.name) -> values (terms) -> main (reverse
\* nested) -> urls (terms); every bucket the output loops read exists under
\* that name in the executed query, so no lookup of a bucket fails.
C7_HeaderValuesPath ==
    /\ (args.cmd = "headervalues" /\ pc # "dispatch") =>
          /\ s.query = [t |-> "match", field |-> "response.headernames", value |-> args.name]
          /\ s.filters = <<>>
          /\ Cardinality(s.aggs) = 1
          /\ \A c \in s.aggs :
                /\ ChainNames(c) = <<"response_headers", "header", "values", "main", "urls">>
                /\ [i \in 1..5 |-> c[i].type] =
                      <<"nested", "filter", "terms", "reverse_nested", "terms">>
                /\ c[1].arg = [path |-> "response.headers"]
                /\ c[2].arg = [t |-> "match", field |-> "response.headers.name",
                               value |-> args.name]
                /\ c[3].arg.field = "response.headers.value.raw"
                /\ c[5].arg.field = "request.url.raw"
    /\ \A i \in 1..Len(calls) :
          calls[i].op = "execute" =>
             \E c \in calls[i].query.aggs :
                ChainNames(c) = IF querytype = QUERY_VALUES
                                THEN <<"response_headers", "header", "values", "main", "urls">>
                                ELSE <<"urls">>
    /\ err # "AttributeError"

C7_Witness ==
    /\ pc = "exit"
    /\ querytype = QUERY_VALUES
    /\ args.urls
    /\ err = ""
    /\ Len(r.buckets) = 2
    /\ \E i \in 1..Len(out) : out[i].t = "url"

\* The number of rows completed in the raw-field output.
Rows == Cardinality({i \in 1..Len(out) : out[i].t = "blank"})

\* C8: in raw-field search mode no field absent on a document, the URL
\* included, aborts the run: every document the engine returns gets its
\* row, an absent field showing as "-".
C8_AbsentFields ==
    (pc = "exit" /\ r.kind = "generator") =>
        /\ err = ""
        /\ exitcode = 0
        /\ Rows = Len(r.docs)

\* C9: a two-part response-code entry with a non-integer bound, wherever it
\* stands in the list, ends the run with ValueError before the engine is
\* called and before anything is printed.
C9_InvalidRange ==
    (IsMissingCmd /\ pc # "dispatch" /\ \E i \in 1..Len(Codes) : BadRange(Codes[i])) =>
        /\ pc = "exit"
        /\ err = "ValueError"
        /\ exitcode = 1
        /\ calls = <<>>
        /\ r = NoResult
        /\ out = <<>>

C9_Witness ==
    /\ pc = "exit"
    /\ err = "ValueError"
    /\ MethodCount = 1
    /\ Len(Codes) = 2
    /\ ~BadRange(Codes[1])
    /\ Codes[2] = <<"a", "b", "c", "-", "2", "9", "9">>

\* C10: the engine is called at most once; once a query has been built the
\* run calls exactly one of scan (search mode with raw fields) and execute
\* (otherwise) before it prints anything; without a subcommand the run
\* prints the help, exits with code 1 and never calls the engine.
C10_SingleSubmission ==
    /\ Len(calls) <= 1
    /\ pc \in {"dispatch", "execute"} => (calls = <<>> /\ out = <<>>)
    /\ (querytype # 0 /\ pc \in {"output", "exit"}) =>
          /\ Len(calls) = 1
          /\ (calls[1].op = "scan") =
                (querytype = QUERY_SEARCH /\ args.fields.present /\ args.fields.v # <<>>)
          /\ calls[1].op \in {"scan", "execute"}
          /\ calls[1].query = s
    /\ pc = "output" => out = <<>>
    /\ (args.cmd = "none" /\ pc = "exit") =>
          (out = <<HelpLine>> /\ exitcode = 1 /\ calls = <<>> /\ querytype = 0)

C10_Witness ==
    /\ pc = "exit"
    /\ Len(calls) = 1
    /\ calls[1].op = "scan"
    /\ Len(out) > 2
    /\ err = ""

====
